---------------------------- MODULE Spec2Model ----------------------------
(***************************************************************************)
(* A model of scripts/parse_commits.py: the timestamp normalizer, the      *)
(* record parser, the branch attribution engine and the timeline renderer. *)
(*                                                                         *)
(* Text is modelled character by character: a string is a sequence of      *)
(* one-character strings.  A line of the git log is the sequence of its    *)
(* separator-delimited fields (what line.split(SEP) returns), so that      *)
(* "SEP in line" is "the line has at least two fields".  A datetime is the *)
(* number of seconds since 2000-01-01 00:00:00.  None is the empty         *)
(* sequence and a returned value v is the one-element sequence <<v>>.      *)
(***************************************************************************)
EXTENDS Integers, Sequences, FiniteSets, TLC

VARIABLES
    pc,              \* where the run is
    arg,             \* the argument of the function a run applies
    ret,             \* what that function returned
    git_log_data,    \* parse_commits: the text of the log, a sequence of lines
    lines,           \* parse_commits: git_log_data.strip().split('\n')
    i,               \* parse_commits: the index into lines (1-based here)
    cur,             \* parse_commits: hash_val, timestamp, message, refs of the header being read
    files,           \* parse_commits: the files collected for cur
    source,          \* history: for each record of commits, the index in lines of its header
    commits,         \* the list of commit records
    branch_periods,  \* determine_commit_branches: the branch periods of the last run
    prev,            \* history: the (hash, branch) pairs the previous run of determine_commit_branches left
    result           \* format_timeline: the lines of the report

vars == <<pc, arg, ret, git_log_data, lines, i, cur, files, source, commits, branch_periods, prev, result>>

None == <<>>
Some(v) == <<v>>

(***************************************************************************)
(* Strings                                                                 *)
(***************************************************************************)
IsSpace(c) == c = " "

RECURSIVE LStrip(_)
LStrip(s) == IF s # <<>> /\ IsSpace(Head(s)) THEN LStrip(Tail(s)) ELSE s

RECURSIVE RStrip(_)
RStrip(s) == IF s # <<>> /\ IsSpace(s[Len(s)]) THEN RStrip(SubSeq(s, 1, Len(s) - 1)) ELSE s

\* str.strip()
Strip(s) == RStrip(LStrip(s))

\* s[k:] starts with p (k is 1-based)
MatchAt(s, p, k) == /\ k + Len(p) - 1 <= Len(s)
                    /\ \A j \in 1..Len(p) : s[k + j - 1] = p[j]

\* str.startswith
StartsWith(s, p) == MatchAt(s, p, 1)

\* p in s
Contains(s, p) == \E k \in 1..(Len(s) - Len(p) + 1) : MatchAt(s, p, k)


\* str.split(c): the pieces of s between the occurrences of character c
RECURSIVE SplitAt(_, _, _)
SplitAt(s, c, acc) ==
    IF s = <<>> THEN <<acc>>
    ELSE IF Head(s) = c THEN <<acc>> \o SplitAt(Tail(s), c, <<>>)
    ELSE SplitAt(Tail(s), c, Append(acc, Head(s)))

Split(s, c) == SplitAt(s, c, <<>>)

\* [^,\s]
NameChar(c) == c # "," /\ ~IsSpace(c)

\* [^,\s]+ from position k on: the longest run of name characters (empty: no match)
RECURSIVE Run(_, _)
Run(s, k) == IF k <= Len(s) /\ NameChar(s[k]) THEN <<s[k]>> \o Run(s, k + 1) ELSE <<>>

(***************************************************************************)
(* extract_branch_from_refs                                                *)
(***************************************************************************)
\* re.search(r'HEAD -> ([^,\s]+)', s): group 1 of the leftmost match, from position k on
RECURSIVE SearchHead(_, _)
SearchHead(s, k) ==
    IF k > Len(s) THEN None
    ELSE LET name == Run(s, k + 8)
         IN IF MatchAt(s, <<"H", "E", "A", "D", " ", "-", ">", " ">>, k) /\ name # <<>>
            THEN Some(name)
            ELSE SearchHead(s, k + 1)

\* re.findall(r'origin/([^,\s]+)', s): group 1 of the non-overlapping matches, left to right
RECURSIVE FindAllOrigin(_, _)
FindAllOrigin(s, k) ==
    IF k > Len(s) THEN <<>>
    ELSE LET name == Run(s, k + 7)
         IN IF MatchAt(s, <<"o", "r", "i", "g", "i", "n", "/">>, k) /\ name # <<>>
            THEN <<name>> \o FindAllOrigin(s, k + 7 + Len(name))
            ELSE FindAllOrigin(s, k + 1)

\* line 78
FeatureName(b) == b \notin {<<"H", "E", "A", "D">>, <<"m", "a", "i", "n">>, <<"m", "a", "s", "t", "e", "r">>}

\* line 84
LocalName(p) == ~StartsWith(p, <<"o", "r", "i", "g", "i", "n", "/">>) /\ p \notin {<<"r", "e", "f", "s", "/", "s", "t", "a", "s", "h">>, <<>>, <<"m", "a", "i", "n">>, <<"m", "a", "s", "t", "e", "r">>}

\* lines 77-79: the first match that is a feature name, or None
RECURSIVE FirstFeature(_)
FirstFeature(seq) ==
    IF seq = <<>> THEN None
    ELSE IF FeatureName(Head(seq)) THEN Some(Head(seq))
    ELSE FirstFeature(Tail(seq))

\* lines 83-85: the first part that is a local name, or None
RECURSIVE FirstLocal(_)
FirstLocal(seq) ==
    IF seq = <<>> THEN None
    ELSE IF LocalName(Head(seq)) THEN Some(Head(seq))
    ELSE FirstLocal(Tail(seq))

\* [p.strip() for p in refs_str.split(',')]
Parts(s) == LET parts == Split(s, ",") IN [k \in 1..Len(parts) |-> Strip(parts[k])]

\* lines 87-93
MainOrMaster(s) ==
    IF Contains(s, <<"o", "r", "i", "g", "i", "n", "/", "m", "a", "i", "n">>) \/ Contains(s, <<"m", "a", "i", "n">>) THEN Some(<<"m", "a", "i", "n">>)
    ELSE IF Contains(s, <<"o", "r", "i", "g", "i", "n", "/", "m", "a", "s", "t", "e", "r">>) \/ Contains(s, <<"m", "a", "s", "t", "e", "r">>) THEN Some(<<"m", "a", "s", "t", "e", "r">>)
    ELSE None

\* lines 81-93
LocalOrTrunk(s) ==
    LET part == FirstLocal(Parts(s))
    IN IF part # None THEN part ELSE MainOrMaster(s)

\* OriginOrLater without the test that the name is none of HEAD, main, master
OriginAnyOrLater(s) ==
    LET matches == FindAllOrigin(s, 1)
    IN IF Contains(s, <<"o", "r", "i", "g", "i", "n", "/">>) /\ matches # <<>> THEN Some(matches[1]) ELSE LocalOrTrunk(s)

\* lines 74-93
OriginOrLater(s) ==
    LET branch == FirstFeature(FindAllOrigin(s, 1))
    IN IF Contains(s, <<"o", "r", "i", "g", "i", "n", "/">>) /\ branch # None THEN branch ELSE LocalOrTrunk(s)

\* lines 67-93, on the stripped string
HeadOrLater(s) ==
    LET match == SearchHead(s, 1)
    IN IF Contains(s, <<"H", "E", "A", "D", " ", "-", ">", " ">>) /\ match # None THEN match ELSE OriginOrLater(s)

extract_branch_from_refs(refs_str) ==
    IF refs_str = <<>> THEN None ELSE HeadOrLater(Strip(refs_str))

(***************************************************************************)
(* The refs strings a run of extract_branch_from_refs is given             *)
(***************************************************************************)
MaxRefPieces == 4

RefPieces == {<<"H", "E", "A", "D", " ", "-", ">", " ">>, <<"o", "r", "i", "g", "i", "n", "/">>, <<"m", "a", "i", "n">>, <<"m", "a", "s", "t", "e", "r">>, <<"H", "E", "A", "D">>, <<"f", "x">>, <<",">>, <<" ">>, <<"r", "e", "f", "s", "/", "s", "t", "a", "s", "h">>}

RECURSIVE Concat(_)
Concat(ss) == IF ss = <<>> THEN <<>> ELSE Head(ss) \o Concat(Tail(ss))

RefExamples == {
    <<"H", "E", "A", "D", " ", "-", ">", " ", "f", "e", "a", "t", "u", "r", "e", "-", "x", ",", " ", "o", "r", "i", "g", "i", "n", "/", "f", "e", "a", "t", "u", "r", "e", "-", "x">>,
    <<"o", "r", "i", "g", "i", "n", "/", "m", "a", "i", "n", ",", " ", "o", "r", "i", "g", "i", "n", "/", "f", "x">>,
    <<"o", "r", "i", "g", "i", "n", "/", "H", "E", "A", "D", ",", " ", "o", "r", "i", "g", "i", "n", "/", "m", "a", "s", "t", "e", "r", ",", " ", "m", "a", "s", "t", "e", "r">>,
    <<"o", "r", "i", "g", "i", "n", "/", "m", "a", "i", "n", ",", " ", "o", "r", "i", "g", "i", "n", "/", "H", "E", "A", "D", ",", " ", "m", "a", "i", "n">>,
    <<"t", "a", "g", ":", " ", "v", "1", ",", " ", "o", "r", "i", "g", "i", "n", "/", "m", "a", "i", "n">>}

RefInputs ==
    RefExamples \cup
    UNION {{Concat(ps) : ps \in [1..n -> RefPieces]} : n \in 0..MaxRefPieces}

InitRefs ==
    /\ pc = "refs"
    /\ arg \in RefInputs
    /\ ret = None
    /\ git_log_data = <<>> /\ lines = <<>> /\ i = 1 /\ cur = None /\ files = <<>> /\ source = <<>>
    /\ commits = <<>> /\ branch_periods = <<>> /\ prev = {} /\ result = <<>>

ExtractBranchFromRefs ==
    /\ pc = "refs"
    /\ ret' = extract_branch_from_refs(arg)
    /\ pc' = "done"
    /\ UNCHANGED <<arg, git_log_data, lines, i, cur, files, source, commits, branch_periods, prev, result>>

NextRefs == ExtractBranchFromRefs

SpecRefs == InitRefs /\ [][NextRefs]_vars

(***************************************************************************)
(* The ranked ref-extraction rule, stated on the positions of the string   *)
(***************************************************************************)
Least(S) == CHOOSE x \in S : \A y \in S : x <= y

\* the name that starts at position a: the characters up to the next comma or blank
NameEnd(s, a) ==
    CHOOSE b \in (a - 1)..Len(s) :
        /\ \A j \in a..b : NameChar(s[j])
        /\ b = Len(s) \/ ~NameChar(s[b + 1])

NameFrom(s, a) == IF a > Len(s) THEN <<>> ELSE SubSeq(s, a, NameEnd(s, a))

HeadPositions(s) == {k \in 1..Len(s) : MatchAt(s, <<"H", "E", "A", "D", " ", "-", ">", " ">>, k) /\ NameFrom(s, k + 8) # <<>>}

OriginPositions(s) ==
    {k \in 1..Len(s) : /\ MatchAt(s, <<"o", "r", "i", "g", "i", "n", "/">>, k)
                       /\ NameFrom(s, k + 7) \notin {<<>>, <<"H", "E", "A", "D">>, <<"m", "a", "i", "n">>, <<"m", "a", "s", "t", "e", "r">>}}

Commas(s) == {k \in 1..Len(s) : s[k] = ","}

\* the comma-separated token that starts at position a, without the blanks around it
TokenFrom(s, a) == Strip(SubSeq(s, a, Least({k \in Commas(s) : k >= a} \cup {Len(s) + 1}) - 1))

LocalPositions(s) ==
    {a \in {1} \cup {k + 1 : k \in Commas(s)} :
        /\ ~StartsWith(TokenFrom(s, a), <<"o", "r", "i", "g", "i", "n", "/">>)
        /\ TokenFrom(s, a) \notin {<<>>, <<"r", "e", "f", "s", "/", "s", "t", "a", "s", "h">>, <<"m", "a", "i", "n">>, <<"m", "a", "s", "t", "e", "r">>}}

RankedRule(s) ==
    IF s = <<>> THEN None
    ELSE IF HeadPositions(s) # {} THEN Some(NameFrom(s, Least(HeadPositions(s)) + 8))
    ELSE IF OriginPositions(s) # {} THEN Some(NameFrom(s, Least(OriginPositions(s)) + 7))
    ELSE IF LocalPositions(s) # {} THEN Some(TokenFrom(s, Least(LocalPositions(s))))
    ELSE IF Contains(s, <<"m", "a", "i", "n">>) THEN Some(<<"m", "a", "i", "n">>)
    ELSE IF Contains(s, <<"m", "a", "s", "t", "e", "r">>) THEN Some(<<"m", "a", "s", "t", "e", "r">>)
    ELSE None

\* C5: extract_branch_from_refs returns, for every refs string, what the ranked rule
\* gives: (1) the name after "HEAD -> ", else (2) the first origin/<name> with a name
\* other than HEAD, main, master, else (3) the first comma-separated token that does
\* not start with origin/ and is not empty, refs/stash, main or master, else (4) main
\* if main occurs, else (5) master if master occurs, else nothing; the empty string
\* gives nothing and "HEAD -> feature-x, origin/feature-x" gives feature-x.
RefsFollowRankedRule ==
    pc = "done" =>
        /\ ret = RankedRule(arg)
        /\ arg = <<>> => ret = None
        /\ arg = <<"H", "E", "A", "D", " ", "-", ">", " ", "f", "e", "a", "t", "u", "r", "e", "-", "x", ",", " ", "o", "r", "i", "g", "i", "n", "/", "f", "e", "a", "t", "u", "r", "e", "-", "x">> => ret = Some(<<"f", "e", "a", "t", "u", "r", "e", "-", "x">>)

\* a run on "origin/main, origin/fx": rule (2) passes over main and returns fx
RefsWitness ==
    pc = "done" /\ arg = <<"o", "r", "i", "g", "i", "n", "/", "m", "a", "i", "n", ",", " ", "o", "r", "i", "g", "i", "n", "/", "f", "x">> /\ ret = Some(<<"f", "x">>)


(***************************************************************************)
(* Numbers in text                                                         *)
(***************************************************************************)
Digits == <<"0", "1", "2", "3", "4", "5", "6", "7", "8", "9">>

IsDigit(c) == \E d \in 1..10 : Digits[d] = c

DigitVal(c) == (CHOOSE d \in 1..10 : Digits[d] = c) - 1

AllDigits(s) == \A k \in 1..Len(s) : IsDigit(s[k])

\* the value of a string of digits
RECURSIVE ToNat(_)
ToNat(s) == IF s = <<>> THEN 0 ELSE 10 * ToNat(SubSeq(s, 1, Len(s) - 1)) + DigitVal(s[Len(s)])

\* the digits of a number after a sign, if any
Unsigned(s) == IF s # <<>> /\ Head(s) \in {"+", "-"} THEN Tail(s) ELSE s

\* int(s): blanks around, an optional sign, then digits; None for the ValueError
PyInt(s) ==
    IF Unsigned(Strip(s)) = <<>> \/ ~AllDigits(Unsigned(Strip(s))) THEN None
    ELSE IF Head(Strip(s)) = "-" THEN Some(0 - ToNat(Unsigned(Strip(s))))
    ELSE Some(ToNat(Unsigned(Strip(s))))

\* str(n), n >= 0
RECURSIVE Dec(_)
Dec(n) == IF n < 10 THEN <<Digits[n + 1]>> ELSE Dec(n \div 10) \o <<Digits[(n % 10) + 1]>>

\* f"{n:02d}", n >= 0
Pad2(n) == IF n < 10 THEN <<"0">> \o Dec(n) ELSE Dec(n)

(***************************************************************************)
(* datetime: the proleptic Gregorian calendar of the standard library      *)
(***************************************************************************)
IsLeap(y) == y % 4 = 0 /\ (y % 100 # 0 \/ y % 400 = 0)

DaysInMonth(y, m) ==
    IF m = 2 THEN (IF IsLeap(y) THEN 29 ELSE 28)
    ELSE IF m \in {4, 6, 9, 11} THEN 30 ELSE 31

DaysBeforeYear(y) == (y - 1) * 365 + (y - 1) \div 4 - (y - 1) \div 100 + (y - 1) \div 400

RECURSIVE DaysBeforeMonth(_, _)
DaysBeforeMonth(y, m) == IF m = 1 THEN 0 ELSE DaysBeforeMonth(y, m - 1) + DaysInMonth(y, m - 1)

\* the day number of y-m-d, day 1 being 0001-01-01
Ordinal(y, m, d) == DaysBeforeYear(y) + DaysBeforeMonth(y, m) + d

\* the datetime y-m-d hh:mi:ss as seconds since 2000-01-01 00:00:00
DateTime(y, m, d, hh, mi, ss) ==
    (Ordinal(y, m, d) - Ordinal(2000, 1, 1)) * 86400 + hh * 3600 + mi * 60 + ss

\* the fields of an ISO string: YYYY-MM-DD, then any one character and HH, :MM, :SS
IsoShape(s) ==
    /\ Len(s) \in {10, 13, 16, 19}
    /\ AllDigits(SubSeq(s, 1, 4)) /\ s[5] = "-"
    /\ AllDigits(SubSeq(s, 6, 7)) /\ s[8] = "-"
    /\ AllDigits(SubSeq(s, 9, 10))
    /\ Len(s) >= 13 => AllDigits(SubSeq(s, 12, 13))
    /\ Len(s) >= 16 => s[14] = ":" /\ AllDigits(SubSeq(s, 15, 16))
    /\ Len(s) >= 19 => s[17] = ":" /\ AllDigits(SubSeq(s, 18, 19))

IsoField(s, from, to) == IF Len(s) >= to THEN ToNat(SubSeq(s, from, to)) ELSE 0

\* datetime.fromisoformat(s) for the date and time forms every version of the
\* library reads (no fraction, no offset suffix); None for the ValueError
fromisoformat(s) ==
    IF ~IsoShape(s) THEN None
    ELSE LET y  == ToNat(SubSeq(s, 1, 4))
             m  == ToNat(SubSeq(s, 6, 7))
             d  == ToNat(SubSeq(s, 9, 10))
             hh == IsoField(s, 12, 13)
             mi == IsoField(s, 15, 16)
             ss == IsoField(s, 18, 19)
         IN IF /\ y >= 1 /\ m \in 1..12 /\ d >= 1 /\ d <= DaysInMonth(y, m)
               /\ hh <= 23 /\ mi <= 59 /\ ss <= 59
            THEN Some(DateTime(y, m, d, hh, mi, ss))
            ELSE None

(***************************************************************************)
(* parse_timestamp                                                         *)
(***************************************************************************)
\* the index of the last blank of s (s has one)
LastSpace(s) == CHOOSE k \in 1..Len(s) : IsSpace(s[k]) /\ \A j \in (k + 1)..Len(s) : ~IsSpace(s[j])

\* lines 34-39
TzSign(tz_part) == IF StartsWith(tz_part, <<"+">>) THEN 1 ELSE -1

\* lines 42-43 and 46: sign * (hours * 60 + minutes), or None when int() raises
OffsetMinutes(tz_part) ==
    LET tz_str  == SubSeq(tz_part, 2, Len(tz_part))
        hours   == PyInt(SubSeq(tz_str, 1, IF Len(tz_str) < 2 THEN Len(tz_str) ELSE 2))
        minutes == PyInt(SubSeq(tz_str, 3, Len(tz_str)))
    IN IF hours = None \/ minutes = None THEN None
       ELSE Some(TzSign(tz_part) * (hours[1] * 60 + minutes[1]))

\* ToUtc with the offset added instead of subtracted
ToUtcAdded(dt, offset_minutes) ==
    IF offset_minutes <= -1440 \/ offset_minutes >= 1440 THEN None
    ELSE Some(dt + offset_minutes * 60)

\* lines 47-53: timezone() takes an offset strictly between -24 and 24 hours
ToUtc(dt, offset_minutes) ==
    IF offset_minutes <= -1440 \/ offset_minutes >= 1440 THEN None
    ELSE Some(dt - offset_minutes * 60)

\* lines 28-53
WithOffset(s) ==
    LET dt_part == SubSeq(s, 1, LastSpace(s) - 1)
        tz_part == SubSeq(s, LastSpace(s) + 1, Len(s))
    IN IF fromisoformat(dt_part) = None \/ OffsetMinutes(tz_part) = None THEN None
       ELSE ToUtc(fromisoformat(dt_part)[1], OffsetMinutes(tz_part)[1])

\* every exception is caught and answered with None (lines 58-60)
parse_timestamp(timestamp_str) ==
    LET s == Strip(timestamp_str)
    IN IF Contains(s, <<" ", "+">>) \/ Contains(s, <<" ", "-">>) THEN WithOffset(s) ELSE fromisoformat(s)

(***************************************************************************)
(* The timestamp strings a run of parse_timestamp is given                 *)
(***************************************************************************)
\* well-formed naive parts, each with its fields and, in naive, the seconds from
\* 2000-01-01 00:00:00 to it
GoodDates == {
    [str |-> <<"2", "0", "2", "5", "-", "0", "7", "-", "2", "9", " ", "2", "2", ":", "1", "9", ":", "0", "1">>, y |-> 2025, m |-> 7, d |-> 29, hh |-> 22, mi |-> 19, ss |-> 1, naive |-> 807142741],
    [str |-> <<"2", "0", "2", "5", "-", "0", "1", "-", "0", "1", " ", "0", "0", ":", "3", "0", ":", "0", "0">>, y |-> 2025, m |-> 1, d |-> 1, hh |-> 0, mi |-> 30, ss |-> 0, naive |-> 789006600],
    [str |-> <<"2", "0", "2", "4", "-", "0", "2", "-", "2", "9", " ", "2", "3", ":", "5", "9", ":", "5", "9">>, y |-> 2024, m |-> 2, d |-> 29, hh |-> 23, mi |-> 59, ss |-> 59, naive |-> 762566399],
    [str |-> <<"2", "0", "2", "3", "-", "1", "2", "-", "3", "1", " ", "2", "1", ":", "0", "0", ":", "0", "0">>, y |-> 2023, m |-> 12, d |-> 31, hh |-> 21, mi |-> 0, ss |-> 0, naive |-> 757371600]}

\* naive parts that fromisoformat refuses
BadDates == {
    <<"2", "0", "2", "5", "-", "1", "3", "-", "0", "1", " ", "0", "0", ":", "0", "0", ":", "0", "0">>, <<"2", "0", "2", "5", "-", "0", "2", "-", "2", "9", " ", "1", "0", ":", "0", "0", ":", "0", "0">>, <<"2", "0", "2", "5", "-", "0", "7", "-", "2", "9", " ", "2", "4", ":", "0", "0", ":", "0", "0">>,
    <<"2", "0", "2", "5", "-", "0", "7", "-", "2", "9", " ", "2", "2", ":", "6", "0", ":", "0", "0">>, <<"0", "0", "0", "0", "-", "0", "1", "-", "0", "1", " ", "0", "0", ":", "0", "0", ":", "0", "0">>, <<"2", "0", "2", "5", "-", "7", "-", "2", "9", " ", "2", "2", ":", "1", "9", ":", "0", "1">>,
    <<"2", "0", "2", "5", "-", "0", "7", "-", "2", "9", " ", "2", "2", ":", "1", "9", ":", "1">>, <<"2", "0", "2", "5", "/", "0", "7", "/", "2", "9", " ", "2", "2", ":", "1", "9", ":", "0", "1">>, <<"x">>, <<>>}

OffsetSigns == {"+", "-"}
OffsetHours == {0, 2, 5, 12, 14, 23}
OffsetMins == {0, 30, 45, 59}

\* "+HHMM" or "-HHMM"
OffsetStr(sign, hours, minutes) == <<sign>> \o Pad2(hours) \o Pad2(minutes)

\* offset parts that cannot be read, or are out of range
BadOffsets == {<<"+", "2", "4", "0", "0">>, <<"-", "2", "4", "0", "0">>, <<"+", "9", "9", "5", "9">>, <<"+", "0", "2">>, <<"+">>, <<"-">>, <<"+", "0", "2", "x", "0">>, <<"+", "0", "x", "0", "0">>, <<"+", "0", "2", ":", "0", "0">>, <<"-", "0", "5", ":", "0", "0">>}

\* an offset within a day that is not of the form HHMM with MM < 60, and still read
OddOffsets == {<<"+", "0", "2", "6", "0">>, <<"+", "0", "2", "0">>, <<"-", "0", "2", "0", "0", "0">>}

Blanks == {<<>>, <<" ">>, <<" ", " ">>}

TimestampInputs ==
    {lead \o dt : lead \in Blanks, dt \in {g.str : g \in GoodDates} \cup BadDates}
    \cup {lead \o dt \o <<" ">> \o off \o trail :
            lead \in {<<>>, <<" ">>}, trail \in {<<>>, <<" ">>},
            dt \in {g.str : g \in GoodDates} \cup BadDates,
            off \in {OffsetStr(sg, h, mn) : sg \in OffsetSigns, h \in OffsetHours, mn \in OffsetMins}
                    \cup BadOffsets \cup OddOffsets}

InitTs ==
    /\ pc = "timestamp"
    /\ arg \in TimestampInputs
    /\ ret = None
    /\ git_log_data = <<>> /\ lines = <<>> /\ i = 1 /\ cur = None /\ files = <<>> /\ source = <<>>
    /\ commits = <<>> /\ branch_periods = <<>> /\ prev = {} /\ result = <<>>

ParseTimestamp ==
    /\ pc = "timestamp"
    /\ ret' = parse_timestamp(arg)
    /\ pc' = "done"
    /\ UNCHANGED <<arg, git_log_data, lines, i, cur, files, source, commits, branch_periods, prev, result>>

NextTs == ParseTimestamp

SpecTs == InitTs /\ [][NextTs]_vars

\* the seconds of a signed offset of h hours and mn minutes
OffsetSeconds(sign, h, mn) == (IF sign = "+" THEN 1 ELSE -1) * (h * 3600 + mn * 60)

\* the inputs with a naive part or an offset part that cannot be read
UnreadableInputs ==
    {lead \o dt : lead \in Blanks, dt \in BadDates}
    \cup {lead \o dt \o <<" ">> \o off \o trail :
            lead \in {<<>>, <<" ">>}, trail \in {<<>>, <<" ">>},
            dt \in BadDates,
            off \in {OffsetStr(sg, h, mn) : sg \in OffsetSigns, h \in OffsetHours, mn \in OffsetMins}
                    \cup BadOffsets \cup OddOffsets}
    \cup {lead \o g.str \o <<" ">> \o off \o trail :
            lead \in {<<>>, <<" ">>}, trail \in {<<>>, <<" ">>}, g \in GoodDates, off \in BadOffsets}

\* C7: parse_timestamp of "YYYY-MM-DD HH:MM:SS +HHMM" (or -HHMM) is the naive
\* date-time minus the signed offset, a string with no offset is returned as it
\* reads, and a string that cannot be read gives None.
TimestampNormalized ==
    pc = "done" =>
        /\ \A g \in GoodDates, sg \in OffsetSigns, h \in OffsetHours, mn \in OffsetMins :
              Strip(arg) = g.str \o <<" ">> \o OffsetStr(sg, h, mn)
                  => ret = Some(g.naive - OffsetSeconds(sg, h, mn))
        /\ \A g \in GoodDates : Strip(arg) = g.str => ret = Some(g.naive)
        /\ arg \in UnreadableInputs => ret = None

\* 2024-02-29 23:59:59 -0500 is 2024-03-01 04:59:59: five hours later, in the next month
TimestampWitness ==
    pc = "done" /\ arg = <<"2", "0", "2", "4", "-", "0", "2", "-", "2", "9", " ", "2", "3", ":", "5", "9", ":", "5", "9", " ", "-", "0", "5", "0", "0">> /\ ret = Some(762566399 + 18000)


(***************************************************************************)
(* extract_branch_from_merge_message                                       *)
(***************************************************************************)
\* the length of the run of digits of s from position k on
RECURSIVE DigitRun(_, _)
DigitRun(s, k) == IF k <= Len(s) /\ IsDigit(s[k]) THEN 1 + DigitRun(s, k + 1) ELSE 0

\* the position of the first character c of s at or after position k, or 0
RECURSIVE IndexFrom(_, _, _)
IndexFrom(s, c, k) ==
    IF k > Len(s) THEN 0 ELSE IF s[k] = c THEN k ELSE IndexFrom(s, c, k + 1)

\* r'Merge pull request #\d+ from [^/]+/(.+)' matched at position k: group 1, or None
PullRequestAt(s, k) ==
    LET d     == k + 20                      \* after "Merge pull request #"
        from  == d + DigitRun(s, d)          \* after \d+
        owner == from + 6                    \* after " from "
        slash == IndexFrom(s, "/", owner)    \* [^/]+ runs to the first slash
    IN IF /\ MatchAt(s, <<"M", "e", "r", "g", "e", " ", "p", "u", "l", "l", " ", "r", "e", "q", "u", "e", "s", "t", " ", "#">>, k)
          /\ DigitRun(s, d) >= 1
          /\ MatchAt(s, <<" ", "f", "r", "o", "m", " ">>, from)
          /\ slash > owner
          /\ slash < Len(s)
       THEN Some(SubSeq(s, slash + 1, Len(s)))
       ELSE None

\* re.search of the pull request pattern: the leftmost match from position k on
RECURSIVE SearchPullRequest(_, _)
SearchPullRequest(s, k) ==
    IF k > Len(s) THEN None
    ELSE LET match == PullRequestAt(s, k)
         IN IF match # None THEN match ELSE SearchPullRequest(s, k + 1)

\* r"Merge branch '([^']+)'" matched at position k: group 1, or None
MergeBranchAt(s, k) ==
    LET name  == k + 14                      \* after "Merge branch '"
        quote == IndexFrom(s, "'", name)
    IN IF MatchAt(s, <<"M", "e", "r", "g", "e", " ", "b", "r", "a", "n", "c", "h", " ", "'">>, k) /\ quote > name
       THEN Some(SubSeq(s, name, quote - 1))
       ELSE None

\* re.search of the merge branch pattern: the leftmost match from position k on
RECURSIVE SearchMergeBranch(_, _)
SearchMergeBranch(s, k) ==
    IF k > Len(s) THEN None
    ELSE LET match == MergeBranchAt(s, k)
         IN IF match # None THEN match ELSE SearchMergeBranch(s, k + 1)

extract_branch_from_merge_message(message) ==
    LET pull   == SearchPullRequest(message, 1)
        branch == SearchMergeBranch(message, 1)
    IN IF pull # None THEN Some(Strip(pull[1]))
       ELSE IF branch # None THEN Some(Strip(branch[1]))
       ELSE None

(***************************************************************************)
(* determine_commit_branches                                               *)
(***************************************************************************)
\* `if x:` for a string or None
Truthy(x) == x # None /\ x[1] # <<>>

\* sorted(..., key=timestamp) is stable: c goes after every record that is not later
RECURSIVE InsertByTime(_, _)
InsertByTime(sorted, c) ==
    IF sorted = <<>> THEN <<c>>
    ELSE IF c.timestamp < Head(sorted).timestamp THEN <<c>> \o sorted
    ELSE <<Head(sorted)>> \o InsertByTime(Tail(sorted), c)

\* line 112
RECURSIVE SortByTime(_)
SortByTime(cs) ==
    IF cs = <<>> THEN <<>> ELSE InsertByTime(SortByTime(SubSeq(cs, 1, Len(cs) - 1)), cs[Len(cs)])

RECURSIVE InsertByMergeTime(_, _)
InsertByMergeTime(sorted, p) ==
    IF sorted = <<>> THEN <<p>>
    ELSE IF p.merge_time < Head(sorted).merge_time THEN <<p>> \o sorted
    ELSE <<Head(sorted)>> \o InsertByMergeTime(Tail(sorted), p)

\* line 135, a stable sort too
RECURSIVE SortByMergeTime(_)
SortByMergeTime(ps) ==
    IF ps = <<>> THEN <<>>
    ELSE InsertByMergeTime(SortByMergeTime(SubSeq(ps, 1, Len(ps) - 1)), ps[Len(ps)])

\* line 119; no record has a 'type' key, so commit.get('type', '') is ''
IsMergeCommit(commit) == StartsWith(commit.message, <<"M", "e", "r", "g", "e">>)

\* lines 118-132: the periods in the order the merge commits are met
RECURSIVE Periods(_)
Periods(sorted_commits) ==
    IF sorted_commits = <<>> THEN <<>>
    ELSE LET commit == Head(sorted_commits)
             branch == extract_branch_from_merge_message(commit.message)
         IN IF IsMergeCommit(commit) /\ Truthy(branch)
            THEN <<[branch |-> branch[1], merge_time |-> commit.timestamp, merge_hash |-> commit.hash]>>
                 \o Periods(Tail(sorted_commits))
            ELSE Periods(Tail(sorted_commits))

\* lines 112-135
BranchPeriods(cs) == SortByMergeTime(Periods(SortByTime(cs)))

\* the keys of merge_branches
MergeHashes(periods) == {periods[k].merge_hash : k \in 1..Len(periods)}

\* line 160
NonProject(branch_name) == Contains(branch_name, <<"c", "u", "r", "s", "o", "r", "/">>) \/ Contains(branch_name, <<"i", "n", "t", "e", "g", "r", "a", "t", "e", "-", "c", "h", "e", "c", "k", "l", "i", "s", "t", "s">>)

\* the window test with the merge time itself left out
InWindowStrict(commit_time, merge_time) ==
    0 < merge_time - commit_time /\ merge_time - commit_time <= 2 * 3600

\* lines 164-165
InWindow(commit_time, merge_time) ==
    0 <= merge_time - commit_time /\ merge_time - commit_time <= 2 * 3600

\* lines 152-167
RECURSIVE WindowBranch(_, _)
WindowBranch(periods, commit_time) ==
    IF periods = <<>> THEN <<"m", "a", "i", "n">>
    ELSE IF NonProject(Head(periods).branch) THEN WindowBranch(Tail(periods), commit_time)
    ELSE IF InWindow(commit_time, Head(periods).merge_time) THEN Head(periods).branch
    ELSE WindowBranch(Tail(periods), commit_time)

\* the merge test made before the refs test
AssignedBranchMergeFirst(commit, periods) ==
    LET refs_branch == extract_branch_from_refs(commit.refs)
    IN IF commit.hash \in MergeHashes(periods) THEN <<"m", "a", "i", "n">>
       ELSE IF Truthy(refs_branch) THEN refs_branch[1]
       ELSE WindowBranch(periods, commit.timestamp)

\* the merge commits not kept out of the windows
AssignedBranchNoMergeTest(commit, periods) ==
    LET refs_branch == extract_branch_from_refs(commit.refs)
    IN IF Truthy(refs_branch) THEN refs_branch[1] ELSE WindowBranch(periods, commit.timestamp)

\* lines 138-169, for one commit
AssignedBranch(commit, periods) ==
    LET refs_branch == extract_branch_from_refs(commit.refs)
    IN IF Truthy(refs_branch) THEN refs_branch[1]
       ELSE IF commit.hash \in MergeHashes(periods) THEN <<"m", "a", "i", "n">>
       ELSE WindowBranch(periods, commit.timestamp)

\* commit['branch'] = b
WithBranch(commit, b) ==
    [f \in DOMAIN commit \cup {"branch"} |-> IF f = "branch" THEN b ELSE commit[f]]

\* the call: the records are changed in place, the list keeps its order

DetermineCommitBranches ==
    /\ pc = "attribute"
    /\ branch_periods' = BranchPeriods(commits)
    /\ commits' = [k \in 1..Len(commits) |->
                      WithBranch(commits[k], AssignedBranch(commits[k], branch_periods'))]
    /\ pc' = "done"
    /\ UNCHANGED <<arg, ret, git_log_data, lines, i, cur, files, source, prev, result>>

(***************************************************************************)
(* The record sets a run of determine_commit_branches is given             *)
(***************************************************************************)
HashLen == 40

MaxCommits == 3

\* the hash of the k-th record of a set: 40 times the same letter
HashLetters == <<"a", "b", "c", "d", "e", "f">>

HashOf(k) == [j \in 1..HashLen |-> HashLetters[k]]

\* seconds; 7201 - 1 is the two hours of the window, 7201 - 0 one second more
Times == {0, 1, 7201}

\* message and refs
Shapes == {
    [message |-> <<"f", "i", "x">>, refs |-> <<>>],
    [message |-> <<"f", "i", "x">>, refs |-> <<"o", "r", "i", "g", "i", "n", "/", "f", "x">>],
    [message |-> <<"M", "e", "r", "g", "e", " ", "p", "u", "l", "l", " ", "r", "e", "q", "u", "e", "s", "t", " ", "#", "1", "2", " ", "f", "r", "o", "m", " ", "a", "l", "i", "c", "e", "/", "f", "i", "x", "-", "b", "u", "g">>, refs |-> <<>>],
    [message |-> <<"M", "e", "r", "g", "e", " ", "b", "r", "a", "n", "c", "h", " ", "'", "f", "e", "a", "t", "'">>, refs |-> <<"o", "r", "i", "g", "i", "n", "/", "d", "e", "v">>],
    [message |-> <<"M", "e", "r", "g", "e", " ", "b", "r", "a", "n", "c", "h", " ", "'", "c", "u", "r", "s", "o", "r", "/", "x", "'">>, refs |-> <<>>],
    [message |-> <<"M", "e", "r", "g", "e", " ", "p", "u", "l", "l", " ", "r", "e", "q", "u", "e", "s", "t", " ", "#", "7", " ", "f", "r", "o", "m", " ", "b", "o", "b", "/", "i", "n", "t", "e", "g", "r", "a", "t", "e", "-", "c", "h", "e", "c", "k", "l", "i", "s", "t", "s">>, refs |-> <<>>],
    [message |-> <<"M", "e", "r", "g", "e", " ", "c", "o", "n", "f", "l", "i", "c", "t", "s", " ", "f", "i", "x", "e", "d">>, refs |-> <<>>]}

Commit(k, t, shape) ==
    [hash |-> HashOf(k), timestamp |-> t, message |-> shape.message, refs |-> shape.refs, files |-> <<>>]

InitBranch ==
    /\ pc = "attribute"
    /\ \E n \in 1..MaxCommits : \E ts \in [1..n -> Times], shapes \in [1..n -> Shapes] :
          commits = [k \in 1..n |-> Commit(k, ts[k], shapes[k])]
    /\ arg = <<>> /\ ret = None
    /\ git_log_data = <<>> /\ lines = <<>> /\ i = 1 /\ cur = None /\ files = <<>> /\ source = <<>>
    /\ branch_periods = <<>> /\ prev = {} /\ result = <<>>

NextBranch == DetermineCommitBranches

SpecBranch == InitBranch /\ [][NextBranch]_vars


\* the (hash, branch) pairs of a list of records with a branch
Assignment(cs) == {<<cs[k].hash, cs[k].branch>> : k \in 1..Len(cs)}

\* the caller runs determine_commit_branches again on the same records, in any order
Reorder ==
    /\ pc = "done"
    /\ \E perm \in Permutations(1..Len(commits)) :
          commits' = [k \in 1..Len(commits) |-> commits[perm[k]]]
    /\ prev' = Assignment(commits)
    /\ pc' = "attribute"
    /\ UNCHANGED <<arg, ret, git_log_data, lines, i, cur, files, source, branch_periods, result>>

NextReorder == DetermineCommitBranches \/ Reorder

SpecReorder == InitBranch /\ [][NextReorder]_vars

(***************************************************************************)
(* What a merge message names, stated on the positions of the message      *)
(***************************************************************************)
\* the slashes that end an <owner> of "Merge pull request #<number> from <owner>/"
\* when the pattern starts at position k
OwnerSlashes(m, k) ==
    {q \in (k + 28)..(Len(m) - 1) :
        /\ m[q] = "/"
        /\ \E d \in 1..(q - k - 27) :
              /\ \A j \in (k + 20)..(k + 19 + d) : IsDigit(m[j])
              /\ MatchAt(m, <<" ", "f", "r", "o", "m", " ">>, k + 20 + d)
              /\ \A j \in (k + 26 + d)..(q - 1) : m[j] # "/"}

PullRequestStarts(m) ==
    {k \in 1..Len(m) : MatchAt(m, <<"M", "e", "r", "g", "e", " ", "p", "u", "l", "l", " ", "r", "e", "q", "u", "e", "s", "t", " ", "#">>, k) /\ OwnerSlashes(m, k) # {}}

\* the quotes that close a "Merge branch '<branch>'" that starts at position k
ClosingQuotes(m, k) ==
    {q \in (k + 15)..Len(m) : m[q] = "'" /\ \A j \in (k + 14)..(q - 1) : m[j] # "'"}

MergeBranchStarts(m) ==
    {k \in 1..Len(m) : MatchAt(m, <<"M", "e", "r", "g", "e", " ", "b", "r", "a", "n", "c", "h", " ", "'">>, k) /\ ClosingQuotes(m, k) # {}}

\* the <branch> of the message without the blanks around it, <<>> when it names none
NamedBranch(m) ==
    IF PullRequestStarts(m) # {}
    THEN Strip(SubSeq(m, Least(OwnerSlashes(m, Least(PullRequestStarts(m)))) + 1, Len(m)))
    ELSE IF MergeBranchStarts(m) # {}
    THEN LET k == Least(MergeBranchStarts(m))
         IN Strip(SubSeq(m, k + 14, Least(ClosingQuotes(m, k)) - 1))
    ELSE <<>>

\* the periods a record may take its branch from: in its two hours, not a non-project branch
Candidates(c) ==
    {j \in 1..Len(branch_periods) :
        /\ ~Contains(branch_periods[j].branch, <<"c", "u", "r", "s", "o", "r", "/">>)
        /\ ~Contains(branch_periods[j].branch, <<"i", "n", "t", "e", "g", "r", "a", "t", "e", "-", "c", "h", "e", "c", "k", "l", "i", "s", "t", "s">>)
        /\ branch_periods[j].merge_time - c.timestamp >= 0
        /\ branch_periods[j].merge_time - c.timestamp <= 7200}

\* C1: a record whose refs yield no name and that created no period has the branch of
\* the first period, in ascending merge_time order, that is not a cursor/ or
\* integrate-checklists branch and whose merge_time is 0 to 7200 seconds after the
\* record, both ends included; with no such period its branch is main.
WindowAssignsFirstPeriod ==
    pc = "done" =>
        /\ \A j \in 1..(Len(branch_periods) - 1) :
              branch_periods[j].merge_time <= branch_periods[j + 1].merge_time
        /\ \A k \in 1..Len(commits) :
              (/\ RankedRule(commits[k].refs) = None
               /\ \A j \in 1..Len(branch_periods) : branch_periods[j].merge_hash # commits[k].hash)
              => LET candidates == Candidates(commits[k])
                 IN commits[k].branch =
                       IF candidates = {} THEN <<"m", "a", "i", "n">>
                       ELSE branch_periods[Least(candidates)].branch

\* a record two hours before the merge of fix-bug takes fix-bug, one a second earlier main
WindowWitness ==
    /\ pc = "done"
    /\ \E a, b, c \in 1..Len(commits) :
          /\ commits[b].message = <<"M", "e", "r", "g", "e", " ", "p", "u", "l", "l", " ", "r", "e", "q", "u", "e", "s", "t", " ", "#", "1", "2", " ", "f", "r", "o", "m", " ", "a", "l", "i", "c", "e", "/", "f", "i", "x", "-", "b", "u", "g">>
          /\ commits[b].timestamp = 7201
          /\ commits[a].message = <<"f", "i", "x">> /\ commits[a].refs = <<>>
          /\ commits[a].timestamp = 1 /\ commits[a].branch = <<"f", "i", "x", "-", "b", "u", "g">>
          /\ commits[c].message = <<"f", "i", "x">> /\ commits[c].refs = <<>>
          /\ commits[c].timestamp = 0 /\ commits[c].branch = <<"m", "a", "i", "n">>

\* C2: a record whose refs yield a name has that name as its branch, whatever its
\* message and whatever periods lie in the two hours after it.
RefsBranchWins ==
    pc = "done" =>
        \A k \in 1..Len(commits) :
            LET name == RankedRule(commits[k].refs)
            IN name # None => commits[k].branch = name[1]

\* a merge of feat with the refs origin/dev, an hour before the merge of fix-bug, is on dev
RefsBranchWitness ==
    /\ pc = "done"
    /\ \E a, b \in 1..Len(commits) :
          /\ commits[a].message = <<"M", "e", "r", "g", "e", " ", "b", "r", "a", "n", "c", "h", " ", "'", "f", "e", "a", "t", "'">> /\ commits[a].refs = <<"o", "r", "i", "g", "i", "n", "/", "d", "e", "v">>
          /\ commits[a].branch = <<"d", "e", "v">>
          /\ commits[b].message = <<"M", "e", "r", "g", "e", " ", "p", "u", "l", "l", " ", "r", "e", "q", "u", "e", "s", "t", " ", "#", "1", "2", " ", "f", "r", "o", "m", " ", "a", "l", "i", "c", "e", "/", "f", "i", "x", "-", "b", "u", "g">>
          /\ commits[b].timestamp - commits[a].timestamp \in 0..7200

\* C3: a record whose message begins with Merge and names a branch, as
\* "Merge pull request #<number> from <owner>/<branch>" or "Merge branch '<branch>'",
\* has a period with that branch, its timestamp as merge_time and its hash as
\* merge_hash, and is itself on main when its refs yield no name.
MergeRecordsOnMain ==
    pc = "done" =>
        \A k \in 1..Len(commits) :
            LET branch == NamedBranch(commits[k].message)
            IN (StartsWith(commits[k].message, <<"M", "e", "r", "g", "e">>) /\ branch # <<>>) =>
                  /\ \E j \in 1..Len(branch_periods) :
                        branch_periods[j] = [branch |-> branch,
                                             merge_time |-> commits[k].timestamp,
                                             merge_hash |-> commits[k].hash]
                  /\ RankedRule(commits[k].refs) = None => commits[k].branch = <<"m", "a", "i", "n">>

\* the merge of fix-bug is on main, an hour before the merge of feat
MergeWitness ==
    /\ pc = "done"
    /\ \E a, b \in 1..Len(commits) :
          /\ commits[a].message = <<"M", "e", "r", "g", "e", " ", "p", "u", "l", "l", " ", "r", "e", "q", "u", "e", "s", "t", " ", "#", "1", "2", " ", "f", "r", "o", "m", " ", "a", "l", "i", "c", "e", "/", "f", "i", "x", "-", "b", "u", "g">>
          /\ commits[a].refs = <<>> /\ commits[a].branch = <<"m", "a", "i", "n">>
          /\ \E j \in 1..Len(branch_periods) :
                branch_periods[j].branch = <<"f", "i", "x", "-", "b", "u", "g">> /\ branch_periods[j].merge_hash = commits[a].hash
          /\ commits[b].message = <<"M", "e", "r", "g", "e", " ", "b", "r", "a", "n", "c", "h", " ", "'", "f", "e", "a", "t", "'">>
          /\ commits[b].timestamp - commits[a].timestamp \in 1..7200

\* C4: a run of determine_commit_branches on the same records, in the same or in
\* another order, gives every hash the branch the run before gave it.
AttributionOrderIndependent ==
    (pc = "done" /\ prev # {}) => Assignment(commits) = prev


(***************************************************************************)
(* parse_commits                                                           *)
(***************************************************************************)
\* line.strip(): the separator is no blank, so only the ends of the line lose blanks
StripLine(l) ==
    IF Len(l) = 1 THEN <<Strip(l[1])>>
    ELSE <<LStrip(l[1])>> \o SubSeq(l, 2, Len(l) - 1) \o <<RStrip(l[Len(l)])>>

\* `not line`, for a stripped line
Blank(l) == l = <<<<>>>>

\* SEP in line
HasSep(l) == Len(l) >= 2

\* the text "": one line, empty
EmptyText == <<<<<<>>>>>>

RECURSIVE DropBlankHead(_)
DropBlankHead(ls) ==
    IF ls # <<>> /\ Blank(StripLine(Head(ls))) THEN DropBlankHead(Tail(ls)) ELSE ls

RECURSIVE DropBlankTail(_)
DropBlankTail(ls) ==
    IF ls # <<>> /\ Blank(StripLine(ls[Len(ls)])) THEN DropBlankTail(SubSeq(ls, 1, Len(ls) - 1)) ELSE ls

\* the first field of a line without the blanks before it
LStripLine(l) == <<LStrip(l[1])>> \o Tail(l)

\* the last field of a line without the blanks after it
RStripLine(l) == SubSeq(l, 1, Len(l) - 1) \o <<RStrip(l[Len(l)])>>

\* line 177, git_log_data.strip().split('\n'): a line end is a blank too, so the blank
\* lines at both ends go, and the blanks at the two ends of what is left
StripText(data) ==
    LET ls == DropBlankTail(DropBlankHead(data))
    IN IF ls = <<>> THEN EmptyText
       ELSE IF Len(ls) = 1 THEN <<StripLine(ls[1])>>
       ELSE <<LStripLine(ls[1])>> \o SubSeq(ls, 2, Len(ls) - 1) \o <<RStripLine(ls[Len(ls)])>>

\* lines 172-174
NoData ==
    /\ pc = "start"
    /\ git_log_data = EmptyText
    /\ pc' = "done"
    /\ UNCHANGED <<arg, ret, git_log_data, lines, i, cur, files, source, commits, branch_periods, prev, result>>

\* lines 176-179
SplitLines ==
    /\ pc = "start"
    /\ git_log_data # EmptyText
    /\ lines' = StripText(git_log_data)
    /\ i' = 1
    /\ pc' = "outer"
    /\ UNCHANGED <<arg, ret, git_log_data, cur, files, source, commits, branch_periods, prev, result>>

\* lines 181-184 and 222-225: a blank line, a line without separator, or with fewer
\* than 3 fields
SkipLine ==
    /\ pc = "outer"
    /\ i <= Len(lines)
    /\ LET line == StripLine(lines[i])
       IN ~(~Blank(line) /\ HasSep(line) /\ Len(line) >= 3)
    /\ i' = i + 1
    /\ UNCHANGED <<pc, arg, ret, git_log_data, lines, cur, files, source, commits, branch_periods, prev, result>>

\* a header with a timestamp that cannot be read ends the reading of the log
DropHeaderStops ==
    /\ pc = "outer"
    /\ i <= Len(lines)
    /\ LET line == StripLine(lines[i])
       IN HasSep(line) /\ Len(line) >= 3 /\ parse_timestamp(line[2]) = None
    /\ i' = Len(lines) + 1
    /\ UNCHANGED <<pc, arg, ret, git_log_data, lines, cur, files, source, commits, branch_periods, prev, result>>

\* lines 187-199: a header with a timestamp that cannot be read
DropHeader ==
    /\ pc = "outer"
    /\ i <= Len(lines)
    /\ LET line == StripLine(lines[i])
       IN HasSep(line) /\ Len(line) >= 3 /\ parse_timestamp(line[2]) = None
    /\ i' = i + 1
    /\ UNCHANGED <<pc, arg, ret, git_log_data, lines, cur, files, source, commits, branch_periods, prev, result>>

\* lines 187-203: a header
ReadHeader ==
    /\ pc = "outer"
    /\ i <= Len(lines)
    /\ LET line      == StripLine(lines[i])
           timestamp == parse_timestamp(line[2])
       IN /\ HasSep(line) /\ Len(line) >= 3 /\ timestamp # None
          /\ cur' = Some([hash |-> line[1], timestamp |-> timestamp[1], message |-> line[3],
                          refs |-> IF Len(line) > 3 THEN line[4] ELSE <<>>, line |-> i])
    /\ files' = <<>>
    /\ i' = i + 1
    /\ pc' = "inner"
    /\ UNCHANGED <<arg, ret, git_log_data, lines, source, commits, branch_periods, prev, result>>

\* a blank line ends the files of the record
BlankEndsFiles ==
    /\ pc = "inner"
    /\ i <= Len(lines)
    /\ Blank(StripLine(lines[i]))
    /\ commits' = Append(commits, [hash |-> cur[1].hash, timestamp |-> cur[1].timestamp,
                                   message |-> cur[1].message, refs |-> cur[1].refs, files |-> files])
    /\ source' = Append(source, cur[1].line)
    /\ i' = i + 1
    /\ pc' = "outer"
    /\ UNCHANGED <<arg, ret, git_log_data, lines, cur, files, branch_periods, prev, result>>

\* lines 205-208
SkipBlankFile ==
    /\ pc = "inner"
    /\ i <= Len(lines)
    /\ Blank(StripLine(lines[i]))
    /\ i' = i + 1
    /\ UNCHANGED <<pc, arg, ret, git_log_data, lines, cur, files, source, commits, branch_periods, prev, result>>

\* line 210
IsCommitLine(next_line) == HasSep(next_line) /\ Len(next_line[1]) = HashLen

\* lines 212-213
AddFile ==
    /\ pc = "inner"
    /\ i <= Len(lines)
    /\ LET next_line == StripLine(lines[i])
       IN /\ ~Blank(next_line) /\ ~IsCommitLine(next_line)
          /\ files' = Append(files, next_line)
    /\ i' = i + 1
    /\ UNCHANGED <<pc, arg, ret, git_log_data, lines, cur, source, commits, branch_periods, prev, result>>

\* lines 204, 210-211 and 215-221: at the next commit line or at the end of the log
AppendCommit ==
    /\ pc = "inner"
    /\ IF i > Len(lines) THEN TRUE
       ELSE ~Blank(StripLine(lines[i])) /\ IsCommitLine(StripLine(lines[i]))
    /\ commits' = Append(commits, [hash |-> cur[1].hash, timestamp |-> cur[1].timestamp,
                                   message |-> cur[1].message, refs |-> cur[1].refs, files |-> files])
    /\ source' = Append(source, cur[1].line)
    /\ pc' = "outer"
    /\ UNCHANGED <<arg, ret, git_log_data, lines, i, cur, files, branch_periods, prev, result>>

\* line 180, the loop left, and line 228
EndOfLines ==
    /\ pc = "outer"
    /\ i > Len(lines)
    /\ pc' = "attribute"
    /\ UNCHANGED <<arg, ret, git_log_data, lines, i, cur, files, source, commits, branch_periods, prev, result>>

(***************************************************************************)
(* The logs a run of parse_commits is given                                *)
(***************************************************************************)
MaxLines == 4

\* a hash of 40 times the letter c
Hash40(c) == [j \in 1..HashLen |-> c]

LinePool == {
    <<<<" ">>>>,
    <<<<"a", ".", "p", "y">>>>,
    <<<<" ", "b", ".", "p", "y", " ">>>>,
    <<<<"x">>, <<"y">>>>,
    <<<<"a", "b", "c">>, <<"2", "0", "2", "5", "-", "0", "7", "-", "3", "0", " ", "0", "2", ":", "3", "0", ":", "0", "0", " ", "+", "0", "0", "0", "0">>, <<"n", "o", "t", "e">>>>,
    <<Hash40("a"), <<"2", "0", "2", "5", "-", "0", "7", "-", "2", "9", " ", "2", "2", ":", "1", "9", ":", "0", "1", " ", "-", "0", "4", "0", "0">>, <<"f", "i", "x">>, <<>>>>,
    <<Hash40("b"), <<"2", "0", "2", "5", "-", "0", "7", "-", "3", "0", " ", "0", "3", ":", "0", "0", ":", "0", "0", " ", "+", "0", "0", "0", "0">>, <<"M", "e", "r", "g", "e", " ", "b", "r", "a", "n", "c", "h", " ", "'", "f", "e", "a", "t", "'">>>>,
    <<Hash40("c"), <<"2", "0", "2", "5", "-", "0", "7", "-", "2", "9", " ", "2", "2", ":", "1", "9", ":", "0", "1", " ", "-", "0", "4", "0", "0">>>>,
    <<Hash40("d"), <<"y", "e", "s", "t", "e", "r", "d", "a", "y">>, <<"f", "i", "x">>, <<>>>>}

\* the text "", or MaxLines lines: the blank lines at the ends make the shorter logs
InitParse ==
    /\ pc = "start"
    /\ git_log_data \in {EmptyText} \cup [1..MaxLines -> LinePool]
    /\ arg = <<>> /\ ret = None
    /\ lines = <<>> /\ i = 1 /\ cur = None /\ files = <<>> /\ source = <<>>
    /\ commits = <<>> /\ branch_periods = <<>> /\ prev = {} /\ result = <<>>

NextParse ==
    \/ NoData \/ SplitLines
    \/ SkipLine \/ DropHeader \/ ReadHeader \/ EndOfLines
    \/ SkipBlankFile \/ AddFile \/ AppendCommit
    \/ DetermineCommitBranches

SpecParse == InitParse /\ [][NextParse]_vars


(***************************************************************************)
(* format_timeline                                                         *)
(***************************************************************************)
\* the separator character of the log format (U+221E in the source)
SEP == "|"

\* a line as text: its fields with the separator between them
RECURSIVE JoinFields(_)
JoinFields(l) ==
    IF Len(l) = 1 THEN l[1] ELSE l[1] \o <<SEP>> \o JoinFields(Tail(l))

UpperCase == <<"A", "B", "C", "D", "E", "F", "G", "H", "I", "J", "K", "L", "M",
               "N", "O", "P", "Q", "R", "S", "T", "U", "V", "W", "X", "Y", "Z">>
LowerCase == <<"a", "b", "c", "d", "e", "f", "g", "h", "i", "j", "k", "l", "m",
               "n", "o", "p", "q", "r", "s", "t", "u", "v", "w", "x", "y", "z">>

\* str.lower()
Lower(s) ==
    [k \in 1..Len(s) |->
        IF \E n \in 1..26 : UpperCase[n] = s[k]
        THEN LowerCase[CHOOSE n \in 1..26 : UpperCase[n] = s[k]]
        ELSE s[k]]

\* line 266
IsMerge(commit) == StartsWith(commit.message, <<"M", "e", "r", "g", "e">>) \/ Contains(Lower(commit.message), <<"m", "e", "r", "g", "e">>)

\* line 263; the differences are whole seconds, not negative
ElapsedLine(time_diff, delta_diff) ==
    LET hours         == time_diff \div 3600
        minutes       == (time_diff % 3600) \div 60
        delta_hours   == delta_diff \div 3600
        delta_minutes == (delta_diff % 3600) \div 60
    IN <<"t", "i", "m", "e", ":", " ">> \o Pad2(hours) \o <<":">> \o Pad2(minutes)
       \o <<" ", " ", "(", "+">> \o Dec(delta_hours * 60 + delta_minutes) \o <<" ", "m", "i", "n", "s", ")">>

\* lines 259-263: commit == commits[0] compares the two records field by field
TimeLine(commit, first, start_time, prev_time) ==
    IF commit = first THEN <<"t", "i", "m", "e", ":", " ", "0", "0", ":", "0", "0">>
    ELSE ElapsedLine(commit.timestamp - start_time, commit.timestamp - prev_time)

\* lines 280-281
FileLines(fs) == [k \in 1..Len(fs) |-> <<" ", " ">> \o JoinFields(fs[k])]

\* lines 247-285: the lines of one commit
Entry(commit, first, start_time, prev_time) ==
    <<TimeLine(commit, first, start_time, prev_time),
      <<"c", "o", "m", "m", "i", "t", ":", " ">> \o commit.hash \o (IF IsMerge(commit) THEN <<" ", "[", "M", "E", "R", "G", "E", "]">> ELSE <<>>),
      <<"b", "r", "a", "n", "c", "h", ":", " ">> \o commit.branch,
      <<>>,
      commit.message,
      <<>>>>
    \o FileLines(commit.files) \o <<<<>>>>

\* lines 244-286: the lines of the commits from the k-th on
RECURSIVE Entries(_, _)
Entries(cs, k) ==
    IF k > Len(cs) THEN <<>>
    ELSE Entry(cs[k], cs[1], cs[1].timestamp, IF k = 1 THEN cs[1].timestamp ELSE cs[k - 1].timestamp)
         \o Entries(cs, k + 1)

\* lines 235-288, after parse_commits; the report is the lines joined by line ends
FormatTimeline ==
    /\ pc = "render"
    /\ commits' = SortByTime(commits)
    /\ result' = IF commits = <<>> THEN <<<<"N", "o", " ", "c", "o", "m", "m", "i", "t", "s", " ", "f", "o", "u", "n", "d">>>> ELSE Entries(commits', 1)
    /\ pc' = "rendered"
    /\ UNCHANGED <<arg, ret, git_log_data, lines, i, cur, files, source, branch_periods, prev>>

(***************************************************************************)
(* The record lists a run of the renderer is given: what parse_commits     *)
(* returns for logs of plain commits, a header line twice in a log at most *)
(***************************************************************************)
RenderTimes == {0, 59, 60, 3661}

RenderPool ==
    {[hash |-> Hash40(c), timestamp |-> t, message |-> m, refs |-> <<>>, files |-> fs, branch |-> <<"m", "a", "i", "n">>] :
        c \in {"a", "b"}, t \in RenderTimes, m \in {<<"f", "i", "x">>, <<"U", "n", "m", "e", "r", "g", "e", "d">>}, fs \in {<<>>, <<<<<<"a", ".", "p", "y">>>>>>}}

InitRender ==
    /\ pc = "render"
    /\ \E n \in 0..MaxCommits : commits \in [1..n -> RenderPool]
    /\ arg = <<>> /\ ret = None
    /\ git_log_data = <<>> /\ lines = <<>> /\ i = 1 /\ cur = None /\ files = <<>> /\ source = <<>>
    /\ branch_periods = <<>> /\ prev = {} /\ result = <<>>

NextRender == FormatTimeline

SpecRender == InitRender /\ [][NextRender]_vars

\* the index in result of the first line of the k-th block
RECURSIVE BlockStart(_)
BlockStart(k) == IF k = 1 THEN 1 ELSE BlockStart(k - 1) + 7 + Len(commits[k - 1].files)

\* "time: HH:MM  (+D mins)" for an elapsed time and a gap in seconds
Elapsed(elapsed, gap) ==
    <<"t", "i", "m", "e", ":", " ">> \o Pad2(elapsed \div 3600) \o <<":">> \o Pad2((elapsed \div 60) % 60)
    \o <<" ", " ", "(", "+">> \o Dec(gap \div 60) \o <<" ", "m", "i", "n", "s", ")">>

\* C8: the blocks of a report are in ascending timestamp order, the first block alone
\* has the line "time: 00:00", and every other block has "time: HH:MM  (+D mins)" with
\* the time since the earliest record and the gap to the record before, in whole minutes.
OnlyFirstBlockIsLiteral ==
    (pc = "rendered" /\ commits # <<>>) =>
        /\ \A k \in 1..(Len(commits) - 1) : commits[k].timestamp <= commits[k + 1].timestamp
        /\ \A k \in 1..Len(commits) :
              /\ StartsWith(result[BlockStart(k) + 1], <<"c", "o", "m", "m", "i", "t", ":", " ">> \o commits[k].hash)
              /\ result[BlockStart(k)] =
                    IF k = 1 THEN <<"t", "i", "m", "e", ":", " ", "0", "0", ":", "0", "0">>
                    ELSE Elapsed(commits[k].timestamp - commits[1].timestamp,
                                 commits[k].timestamp - commits[k - 1].timestamp)


(***************************************************************************)
(* The parser's claims                                                     *)
(***************************************************************************)
\* the n-th line as the parser reads it
LineAt(n) == StripLine(lines[n])

\* a header line: the separator, and a first field of 40 characters
IsHeader(l) == Len(l) >= 2 /\ Len(l[1]) = 40

\* a header line the parser must drop: fewer than 3 fields, or a timestamp that cannot be read
MalformedHeader(l) == IsHeader(l) /\ (Len(l) < 3 \/ parse_timestamp(l[2]) = None)

\* a header line that makes a record
GoodHeader(l) == IsHeader(l) /\ Len(l) >= 3 /\ parse_timestamp(l[2]) # None

\* the records made from the n-th line
RecordsOf(n) == {k \in 1..Len(source) : source[k] = n}

\* C6: a header line with fewer than 3 fields or a timestamp that cannot be read
\* makes no record and stops nothing: the log is read to its end, and every header
\* line with 3 fields or more and a readable timestamp makes exactly one record, with
\* its fields, wherever it stands.
MalformedHeadersAreDropped ==
    (pc = "done" /\ git_log_data # EmptyText) =>
        /\ i = Len(lines) + 1
        /\ \A n \in 1..Len(lines) :
              /\ MalformedHeader(LineAt(n)) => RecordsOf(n) = {}
              /\ GoodHeader(LineAt(n)) =>
                    /\ Cardinality(RecordsOf(n)) = 1
                    /\ \A k \in RecordsOf(n) :
                          /\ commits[k].hash = LineAt(n)[1]
                          /\ commits[k].timestamp = parse_timestamp(LineAt(n)[2])[1]
                          /\ commits[k].message = LineAt(n)[3]

\* a header with an unreadable timestamp, one with 2 fields, then a header whose record is made
MalformedWitness ==
    /\ pc = "done"
    /\ Len(lines) >= 3
    /\ LineAt(1) = <<Hash40("d"), <<"y", "e", "s", "t", "e", "r", "d", "a", "y">>, <<"f", "i", "x">>, <<>>>>
    /\ LineAt(2) = <<Hash40("c"), <<"2", "0", "2", "5", "-", "0", "7", "-", "2", "9", " ", "2", "2", ":", "1", "9", ":", "0", "1", " ", "-", "0", "4", "0", "0">>>>
    /\ LineAt(3)[1] = Hash40("a")
    /\ Len(commits) = 1 /\ commits[1].hash = Hash40("a") /\ source = <<3>>

\* C9: a line is read as the header of a record only if it has the separator and a
\* first field of 40 characters, so every record has a hash of 40 characters.
HashesHave40Characters ==
    /\ \A k \in 1..Len(source) : IsHeader(LineAt(source[k]))
    /\ \A k \in 1..Len(commits) : Len(commits[k].hash) = 40

\* the index of the first header line after the n-th line, or one past the last line
NextHeader(n) == Least({m \in (n + 1)..Len(lines) : IsHeader(LineAt(m))} \cup {Len(lines) + 1})

NotBlank(l) == l # <<<<>>>>

\* the lines from a to b as the parser reads them, the blank ones left out
PathLines(a, b) == SelectSeq([n \in 1..(b - a + 1) |-> LineAt(a + n - 1)], NotBlank)

\* C10: the files of a record are the lines that are not blank between its header and
\* the next header line or the end of the log, in their order, a line as often as it
\* is there; no line belongs to two records, nor to a record before the nearest one.
FilesAreThePathLines ==
    pc = "done" =>
        /\ \A k \in 1..Len(commits) :
              commits[k].files = PathLines(source[k] + 1, NextHeader(source[k]) - 1)
        /\ \A k \in 1..(Len(source) - 1) : NextHeader(source[k]) <= source[k + 1]

\* a header, a path, a blank line and the same path again: both paths are its files
FilesWitness ==
    /\ pc = "done"
    /\ Len(lines) = 4
    /\ LineAt(1)[1] = Hash40("a")
    /\ LineAt(2) = <<<<"a", ".", "p", "y">>>> /\ LineAt(3) = <<<<>>>> /\ LineAt(4) = <<<<"a", ".", "p", "y">>>>
    /\ Len(commits) = 1 /\ commits[1].files = <<<<<<"a", ".", "p", "y">>>>, <<<<"a", ".", "p", "y">>>>>>

=============================================================================
